---- MODULE Spec2Model ----
(***************************************************************************)
(* Model of clearskypy/extractor/extract.py: date_check, extract_dataset,  *)
(* extract_dataset_list and the file classification / extraction calls of  *)
(* extract_for_MERRA2.                                                     *)
(*                                                                         *)
(* Time is counted in minutes.  A requested time matrix is a sequence of   *)
(* rows, each row a sequence of cells (one per station column); a cell is  *)
(* a timestamp or NaT.  The Python empty list [] is PyEmptyList.  A result *)
(* of a call is a record [kind, exc, mats]: kind "ok" carries one matrix   *)
(* per variable, "minus1"/"minus2" are the integer sentinels -1/-2,        *)
(* "empty" is the returned [] and "raise" an exception that propagates.    *)
(* A matrix cell of an output is <<"val", file, variable, lat, lon, t>>    *)
(* (the file's value of the variable at grid cell (lat, lon) and time t),  *)
(* NaN, or Uninit (a cell of np.empty that was never written: any float).  *)
(***************************************************************************)
EXTENDS Integers, Sequences, FiniteSets, TLC

VARIABLES caller, pc, lats, lons, dataset_path_list, variables, datearray,
          interpolate, index_dataset, var_list, datevecs, opened, result,
          datadirlist, index_file, dirlist, asmlist, phis

vars == <<caller, pc, lats, lons, dataset_path_list, variables, datearray,
          interpolate, index_dataset, var_list, datevecs, opened, result,
          datadirlist, index_file, dirlist, asmlist, phis>>

(***************************************************************************)
(* Bounds of the explored inputs.                                          *)
(***************************************************************************)
MaxRows == 3
MaxCols == 2
MaxStations == 2
MaxFiles == 2
MaxDir == 2

(***************************************************************************)
(* Values.                                                                 *)
(***************************************************************************)
NaT == -1
HalfHour == 30
PyEmptyList == <<>>
NaN == <<"nan">>
Uninit == <<"uninit">>

MerraVariables ==
  <<"TOTEXTTAU", "TOTSCATAU", "TOTANGSTR", "ALBEDO", "TO3", "TQV", "PS">>

Range(s) == {s[i] : i \in 1..Len(s)}

(***************************************************************************)
(* Dataset files: an id, the native time axis and the variables held.      *)
(* Two hourly time-series files whose windows are one sampling interval    *)
(* apart, and one single-time-step (static) file.                          *)
(***************************************************************************)
FileDay1 == [id |-> 1, time |-> <<60, 120>>, vars |-> Range(MerraVariables)]
FileDay2 == [id |-> 2, time |-> <<180, 240>>, vars |-> Range(MerraVariables)]
FileConst == [id |-> 3, time |-> <<0>>, vars |-> {"PHIS"}]
Catalog == {FileDay1, FileDay2, FileConst}

\* latitudes / longitudes of the dataset grid, and station coordinates
Grid == {0, 4}

\* station coordinate sequences of length n: one shared coordinate, or two
\* coordinates in turn
Patterns(n) ==
  { [i \in 1..n |-> 1],
    [i \in 1..n |-> IF i % 2 = 1 THEN 1 ELSE 3],
    [i \in 1..n |-> IF i % 2 = 1 THEN 3 ELSE 1] }
ReqTimes == {90, 150, 180}

VariableLists ==
  {<<"TOTEXTTAU", "TQV">>, <<"TOTEXTTAU", "PHIS">>, <<"PHIS">>}

SeqsUpTo(S, n) == UNION {[1..k -> S] : k \in 1..n}

CoordSeqs == UNION {Patterns(n) : n \in 1..MaxStations}

\* columns of a requested time matrix: increasing timestamps, right-padded
\* with NaT
Columns(m) ==
  {c \in [1..m -> ReqTimes \cup {NaT}] :
     \A i \in 1..(m - 1) :
        /\ (c[i] = NaT => c[i + 1] = NaT)
        /\ (c[i + 1] # NaT => c[i] < c[i + 1])}

Matrices(m, n) ==
  {[r \in 1..m |-> [s \in 1..n |-> cols[s][r]]] : cols \in [1..n -> Columns(m)]}

Requests ==
  {PyEmptyList} \cup
  UNION {Matrices(m, n) : m \in 1..MaxRows, n \in 1..MaxCols}

NumRows(M) == Len(M)
NumCols(M) == Len(M[1])

Abs(x) == IF x < 0 THEN -x ELSE x

\* xarray .sel(..., method='nearest') on one coordinate axis
Nearest(axis, x) ==
  CHOOSE g \in axis : \A h \in axis : Abs(x - g) <= Abs(x - h)

(***************************************************************************)
(* date_check                                                              *)
(***************************************************************************)
\* date_check with the end of the window excluded
date_check_open(date, date_start, date_end) ==
  IF date # NaT /\ date_start <= date /\ date < date_end
  THEN date
  ELSE NaT

date_check(date, date_start, date_end) ==
  IF date # NaT /\ date_start <= date /\ date <= date_end
  THEN date
  ELSE NaT

\* np.vectorize(date_check)(datearray, start, end)
date_check_vec(M, date_start, date_end) ==
  [r \in 1..NumRows(M) |->
     [s \in 1..NumCols(M) |-> date_check(M[r][s], date_start, date_end)]]

(***************************************************************************)
(* Results                                                                 *)
(***************************************************************************)
Ok(mats) == [kind |-> "ok", exc |-> "", mats |-> mats]
Minus1 == [kind |-> "minus1", exc |-> "", mats |-> <<>>]
Minus2 == [kind |-> "minus2", exc |-> "", mats |-> <<>>]
Empty == [kind |-> "empty", exc |-> "", mats |-> <<>>]
Raise(e) == [kind |-> "raise", exc |-> e, mats |-> <<>>]
NoResult == [kind |-> "none", exc |-> "", mats |-> <<>>]

(***************************************************************************)
(* extract_dataset                                                         *)
(***************************************************************************)
\* a lookup that succeeds as soon as one of the variables is held
VariablesPresent_any(file, vs) == \E i \in 1..Len(vs) : vs[i] \in file.vars

\* dataset[variables] succeeds
VariablesPresent(file, vs) == \A i \in 1..Len(vs) : vs[i] \in file.vars

\* np.unique(datetime[~np.isnat(datetime)])
datetime_for_interp(dt) ==
  {dt[r][s] : r \in 1..NumRows(dt), s \in 1..NumCols(dt)} \ {NaT}

\* datetime[:, index_station] without its NaT cells, in row order
datetime_for_station(dt, s) ==
  LET col == [r \in 1..NumRows(dt) |-> dt[r][s]]
  IN  SelectSeq(col, LAMBDA t : t # NaT)

\* a selection that only looks up the last of the timestamps
ExactMatch_last(file, times) ==
  times = {} \/ (CHOOSE x \in times : \A y \in times : y <= x) \in Range(file.time)

\* dataset.sel(time=datetime_for_interp) finds every timestamp
ExactMatch(file, times) == times \subseteq Range(file.time)

\* the grid cell the per-station selection resolves to: the dataset was
\* first reduced to the cells nearest the unique coordinates, the station
\* is then selected by nearest neighbour within that reduction
StationCell(ls, x) ==
  Nearest({Nearest(Grid, u) : u \in Range(ls)}, x)

\* value of a variable at a station's cell after dataset.interp(time=...)
Interp(file, v, la, lo, t) ==
  IF file.time[1] <= t /\ t <= file.time[Len(file.time)]
  THEN <<"val", file.id, v, la, lo, t>>
  ELSE NaN

Min(S) == CHOOSE x \in S : \A y \in S : x <= y

\* outcome of the body of the station loop for one station, interpolating
\* branch: "ok" or the exception raised
InterpStationExc(la, lo, file, dt, s) ==
  LET ts == datetime_for_station(dt, s)
  IN  IF Len(ts) = 0
      THEN IF s > Len(la) THEN "IndexError" ELSE "ok"
      ELSE IF s > Len(la) THEN "IndexError"
      ELSE IF Len(file.time) = 1 /\ ~ExactMatch(file, Range(ts))
      THEN "KeyError"
      ELSE IF Len(ts) # NumRows(dt) /\ Len(ts) # 1 THEN "ValueError"
      ELSE "ok"

\* the column written for one station, interpolating branch
InterpStationColumn(la, lo, file, v, dt, s) ==
  LET ts == datetime_for_station(dt, s)
      clat == StationCell(la, la[s])
      clon == StationCell(lo, lo[s])
      val(t) == IF Len(file.time) = 1
                THEN <<"val", file.id, v, clat, clon, file.time[1]>>
                ELSE Interp(file, v, clat, clon, t)
  IN  [r \in 1..NumRows(dt) |->
         IF Len(ts) = 0 THEN NaN
         ELSE IF Len(ts) = 1 THEN val(ts[1])
         ELSE val(ts[r])]

\* outcome of the station loop body, non-interpolating branch
StaticStationExc(la, lo, file, dt, s) ==
  IF s > Len(la) THEN "IndexError"
  ELSE IF Len(file.time) > 1 /\ datetime_for_interp(dt) = {}
  THEN "IndexError"
  ELSE IF s > Cardinality(Range(lo)) THEN "IndexError"
  ELSE "ok"

StaticStationValue(la, lo, file, v, dt, s) ==
  <<"val", file.id, v, StationCell(la, la[s]), StationCell(lo, lo[s]),
    IF Len(file.time) = 1 THEN file.time[1] ELSE Min(datetime_for_interp(dt))>>

\* lines 74-93: one matrix per variable, or the first exception
Assemble(la, lo, file, vs, dt, interp) ==
  LET exc(s) == IF interp THEN InterpStationExc(la, lo, file, dt, s)
                ELSE StaticStationExc(la, lo, file, dt, s)
      failing == {s \in 1..Len(lo) : exc(s) # "ok"}
      interpMat(v) ==
        [r \in 1..NumRows(dt) |->
           [s \in 1..Len(la) |->
              IF s <= Len(lo)
              THEN InterpStationColumn(la, lo, file, v, dt, s)[r]
              ELSE Uninit]]
      staticMat(v) ==
        [u \in 1..Cardinality(Range(lo)) |->
           <<IF u <= Len(lo)
             THEN StaticStationValue(la, lo, file, v, dt, u)
             ELSE Uninit>>]
  IN  IF failing # {}
      THEN Raise(exc(Min(failing)))
      ELSE Ok([i \in 1..Len(vs) |->
                 IF interp THEN interpMat(vs[i]) ELSE staticMat(vs[i])])

extract_dataset(la, lo, file, vs, dt, interp) ==
  IF dt = PyEmptyList THEN Empty
  ELSE IF ~VariablesPresent(file, vs) THEN Minus1
  ELSE IF Len(lo) > NumCols(dt) THEN Raise("IndexError")
  ELSE IF Len(file.time) > 1 /\ ~interp
          /\ ~ExactMatch(file, datetime_for_interp(dt))
  THEN Minus2
  ELSE Assemble(la, lo, file, vs, dt, interp)

\* extract_dataset opens the dataset file unless it returns at line 41
OpensFile(dt) == dt # PyEmptyList

(***************************************************************************)
(* A direct call of extract_dataset on one dataset file.                   *)
(***************************************************************************)
InitExtract ==
  /\ caller = "extract_dataset"
  /\ pc = "call"
  /\ lats \in CoordSeqs
  /\ lons \in CoordSeqs
  /\ dataset_path_list \in {<<f>> : f \in Catalog}
  /\ variables \in VariableLists
  /\ datearray \in Requests
  /\ interpolate \in BOOLEAN
  /\ index_dataset = 0
  /\ var_list = <<>>
  /\ datevecs = <<>>
  /\ opened = <<>>
  /\ result = NoResult
  /\ datadirlist = <<>>
  /\ index_file = 0
  /\ dirlist = <<>>
  /\ asmlist = <<>>
  /\ phis = NoResult

ExtractDataset ==
  /\ pc = "call"
  /\ result' = extract_dataset(lats, lons, dataset_path_list[1], variables,
                               datearray, interpolate)
  /\ opened' = IF OpensFile(datearray)
               THEN Append(opened, dataset_path_list[1].id)
               ELSE opened
  /\ pc' = "done"
  /\ UNCHANGED <<caller, lats, lons, dataset_path_list, variables,
                 datearray, interpolate, index_dataset, var_list, datevecs,
                 datadirlist, index_file, dirlist, asmlist, phis>>

NextExtract == ExtractDataset

SpecExtract == InitExtract /\ [][NextExtract]_vars

(***************************************************************************)
(* extract_dataset_list: one step per iteration of the loop over the       *)
(* dataset files, then the stacking of the collected results.              *)
(***************************************************************************)
Last(s) == s[Len(s)]

\* the window handed to date_check for one file
WindowStart(file) == file.time[1] - HalfHour
WindowEnd(file) == Last(file.time) + HalfHour

\* datevecs_for_dataset
Restricted(M, file) == date_check_vec(M, WindowStart(file), WindowEnd(file))

\* newvar != []
NotEmptyList(newvar) == newvar.kind # "empty"

\* the station coordinates of a request: one station per column
StationsOf(M) ==
  IF M = PyEmptyList THEN CoordSeqs ELSE Patterns(NumCols(M))

\* lists of distinct dataset files, in any order
FileLists ==
  {<<>>} \cup
  {l \in SeqsUpTo(Catalog, MaxFiles) :
     \A i, j \in 1..Len(l) : i # j => l[i] # l[j]}

InitList ==
  /\ caller = "extract_dataset_list"
  /\ pc = "loop"
  /\ datearray \in Requests
  /\ lats \in StationsOf(datearray)
  /\ lons = lats
  /\ dataset_path_list \in FileLists
  /\ variables = <<"TOTEXTTAU", "TQV">>
  /\ interpolate \in BOOLEAN
  /\ index_dataset = 0
  /\ var_list = <<>>
  /\ datevecs = <<>>
  /\ opened = <<>>
  /\ result = NoResult
  /\ datadirlist = <<>>
  /\ index_file = 0
  /\ dirlist = <<>>
  /\ asmlist = <<>>
  /\ phis = NoResult

\* lines 123-137, one iteration
ListStep ==
  /\ pc = "loop"
  /\ index_dataset < Len(dataset_path_list)
  /\ LET file == dataset_path_list[index_dataset + 1]
     IN  IF datearray = PyEmptyList
         THEN \* np.vectorize refuses an input of size 0
              /\ opened' = Append(opened, file.id)
              /\ result' = Raise("ValueError")
              /\ pc' = "done"
              /\ UNCHANGED <<index_dataset, var_list, datevecs>>
         ELSE LET dv == Restricted(datearray, file)
                  newvar == extract_dataset(lats, lons, file, variables, dv,
                                            interpolate)
              IN  /\ opened' = opened \o <<file.id>> \o
                                 (IF OpensFile(dv) THEN <<file.id>> ELSE <<>>)
                  /\ datevecs' = Append(datevecs, dv)
                  /\ IF newvar.kind = "raise"
                     THEN /\ result' = newvar
                          /\ pc' = "done"
                          /\ UNCHANGED <<index_dataset, var_list>>
                     ELSE /\ var_list' = IF NotEmptyList(newvar)
                                         THEN Append(var_list, newvar)
                                         ELSE var_list
                          /\ index_dataset' = index_dataset + 1
                          /\ UNCHANGED <<result, pc>>
  /\ UNCHANGED <<caller, lats, lons, dataset_path_list, variables, datearray,
                 interpolate, datadirlist, index_file, dirlist, asmlist,
                 phis>>

\* np.vstack of two matrices
vstack(A, B) == A \o B

RECURSIVE StackFrom(_, _, _)
\* lines 140-145 from index k of var_list on, var being the list stacked
\* so far
StackFrom(var, vl, k) ==
  IF k > Len(vl) THEN var
  ELSE IF var.kind # "ok" \/ vl[k].kind # "ok" THEN Raise("TypeError")
  ELSE IF \E i \in 1..Len(var.mats) :
             NumCols(var.mats[i]) # NumCols(vl[k].mats[i])
  THEN Raise("ValueError")
  ELSE StackFrom(Ok([i \in 1..Len(var.mats) |->
                       vstack(var.mats[i], vl[k].mats[i])]),
                 vl, k + 1)

\* lines 138-147
Stack(vl) ==
  IF Len(vl) = 0 THEN Raise("IndexError") ELSE StackFrom(vl[1], vl, 2)

ListStack ==
  /\ pc = "loop"
  /\ index_dataset = Len(dataset_path_list)
  /\ result' = Stack(var_list)
  /\ pc' = IF caller = "extract_for_MERRA2" /\ Stack(var_list).kind # "raise"
           THEN "phis"
           ELSE "done"
  /\ UNCHANGED <<caller, lats, lons, dataset_path_list, variables, datearray,
                 interpolate, index_dataset, var_list, datevecs, opened,
                 datadirlist, index_file, dirlist, asmlist, phis>>

NextList == ListStep \/ ListStack

Spec == InitList /\ [][NextList]_vars

(***************************************************************************)
(* extract_for_MERRA2: classification of the directory listing, the        *)
(* stitched extraction of the time-series files and the extraction of      *)
(* PHIS from the first static file.  A file name is a sequence of parts;   *)
(* 'x' in file holds when x is one of the parts.  The arithmetic on the    *)
(* extracted matrices (lines 172-187) is not part of the model.            *)
(***************************************************************************)
Contains(name, part) == \E i \in 1..Len(name) : name[i] = part

DirEntries ==
  { [name |-> <<"merra2", "day1">>, data |-> FileDay1],
    [name |-> <<"merra2", "day2">>, data |-> FileDay2],
    [name |-> <<"MERRA2", "day2">>, data |-> FileDay2],
    [name |-> <<"merra2", "const_2d_asm">>, data |-> FileConst],
    [name |-> <<"merra2", "index">>, data |-> FileDay1],
    [name |-> <<"const_2d_asm", "index">>, data |-> FileConst] }

\* os.listdir: distinct names, in some order
Listings ==
  {<<>>} \cup
  {d \in SeqsUpTo(DirEntries, MaxDir) :
     \A i, j \in 1..Len(d) : i # j => d[i] # d[j]}

\* the chain with the "const_2d_asm" test ahead of the "index" test
Classify_asm_first(name) ==
  IF Contains(name, "const_2d_asm") THEN "asm"
  ELSE IF Contains(name, "index") THEN "ignored"
  ELSE IF Contains(name, "merra2") THEN "dataset"
  ELSE "ignored"

\* the class the if/elif chain of lines 158-163 puts a file name in
Classify(name) ==
  IF Contains(name, "index") THEN "ignored"
  ELSE IF Contains(name, "const_2d_asm") THEN "asm"
  ELSE IF Contains(name, "merra2") THEN "dataset"
  ELSE "ignored"

InitMerra ==
  /\ caller = "extract_for_MERRA2"
  /\ pc = "classify"
  /\ datearray \in UNION {Matrices(1, n) : n \in 1..MaxCols}
  /\ lats \in StationsOf(datearray)
  /\ lons = lats
  /\ datadirlist \in Listings
  /\ dataset_path_list = <<>>
  /\ variables = <<>>
  /\ interpolate = TRUE
  /\ index_dataset = 0
  /\ var_list = <<>>
  /\ datevecs = <<>>
  /\ opened = <<>>
  /\ result = NoResult
  /\ index_file = 0
  /\ dirlist = <<>>
  /\ asmlist = <<>>
  /\ phis = NoResult

\* lines 157-163, one iteration
ClassifyFile ==
  /\ pc = "classify"
  /\ index_file < Len(datadirlist)
  /\ LET file == datadirlist[index_file + 1]
     IN  /\ asmlist' = IF Classify(file.name) = "asm"
                       THEN Append(asmlist, file)
                       ELSE asmlist
         /\ dirlist' = IF Classify(file.name) = "dataset"
                       THEN Append(dirlist, file)
                       ELSE dirlist
  /\ index_file' = index_file + 1
  /\ UNCHANGED <<caller, pc, lats, lons, dataset_path_list, variables,
                 datearray, interpolate, index_dataset, var_list, datevecs,
                 opened, result, datadirlist, phis>>

\* lines 164-168: the call of extract_dataset_list on dirlist
MerraCallList ==
  /\ pc = "classify"
  /\ index_file = Len(datadirlist)
  /\ dataset_path_list' = [i \in 1..Len(dirlist) |-> dirlist[i].data]
  /\ variables' = MerraVariables
  /\ interpolate' = TRUE
  /\ pc' = "loop"
  /\ UNCHANGED <<caller, lats, lons, datearray, index_dataset, var_list,
                 datevecs, opened, result, datadirlist, index_file, dirlist,
                 asmlist, phis>>

\* the unpacking of line 165 and line 170
MerraPhis ==
  /\ pc = "phis"
  /\ IF result.kind # "ok"
     THEN \* [AOD_550, ...] = -1
          /\ result' = Raise("TypeError")
          /\ UNCHANGED <<phis, opened>>
     ELSE IF Len(asmlist) = 0
     THEN /\ result' = Raise("IndexError")
          /\ UNCHANGED <<phis, opened>>
     ELSE LET p == extract_dataset(lats, lons, asmlist[1].data, <<"PHIS">>,
                                   datearray, FALSE)
          IN  /\ opened' = Append(opened, asmlist[1].data.id)
              /\ phis' = p
              /\ result' = IF p.kind = "ok" THEN result
                           ELSE IF p.kind = "raise" THEN p
                           ELSE Raise("TypeError")
  /\ pc' = "done"
  /\ UNCHANGED <<caller, lats, lons, dataset_path_list, variables, datearray,
                 interpolate, index_dataset, var_list, datevecs,
                 datadirlist, index_file, dirlist, asmlist>>

NextMerra == ClassifyFile \/ MerraCallList \/ ListStep \/ ListStack \/ MerraPhis

SpecMerra == InitMerra /\ [][NextMerra]_vars

(***************************************************************************)
(* Properties.                                                             *)
(***************************************************************************)
\* the dataset file of a direct extract_dataset call
CalledFile == dataset_path_list[1]

\* a requested timestamp lies in the file's coverage window expanded by
\* 30 minutes on both sides
InExpandedWindow(t, file) ==
  t # NaT /\ file.time[1] - 30 <= t /\ t <= file.time[Len(file.time)] + 30

\* rows of the request holding a timestamp of the file's expanded window
ContributingRows(file) ==
  {r \in 1..NumRows(datearray) :
     \E s \in 1..NumCols(datearray) : InExpandedWindow(datearray[r][s], file)}

\* every cell of a matrix row stems from the given file (or is NaN)
RowOfFile(row, id) ==
  \A s \in 1..Len(row) : row[s] = NaN \/ (row[s][1] = "val" /\ row[s][2] = id)

WellFormedRequest ==
  /\ datearray # PyEmptyList
  /\ Len(lats) = Len(lons)
  /\ NumCols(datearray) = Len(lons)

\* C1: stitching two files with disjoint, contiguous (tolerance-bridged)
\* windows and a shared station/variable set returns, for every variable, a
\* matrix whose row count is the sum of the rows each file contributes (the
\* requested timestamps in its window), the first file's rows on top.
C1_RowCountIsSumOfContributions ==
  ( /\ caller = "extract_dataset_list"
    /\ pc = "done"
    /\ interpolate
    /\ WellFormedRequest
    /\ Len(dataset_path_list) = 2
    /\ \A r \in 1..NumRows(datearray), s \in 1..NumCols(datearray) :
         \E k \in 1..2 : InExpandedWindow(datearray[r][s], dataset_path_list[k])
    /\ Last(dataset_path_list[1].time) < dataset_path_list[2].time[1]
    /\ dataset_path_list[2].time[1] - Last(dataset_path_list[1].time)
         <= 2 * 30
    /\ VariablesPresent(dataset_path_list[1], variables)
    /\ VariablesPresent(dataset_path_list[2], variables) )
  => /\ result.kind = "ok"
     /\ Len(result.mats) = Len(variables)
     /\ \A i \in 1..Len(result.mats) :
          LET n1 == Cardinality(ContributingRows(dataset_path_list[1]))
              n2 == Cardinality(ContributingRows(dataset_path_list[2]))
              M == result.mats[i]
          IN  /\ Len(M) = n1 + n2
              /\ \A r \in 1..Len(M) :
                   RowOfFile(M[r], IF r <= n1 THEN dataset_path_list[1].id
                                   ELSE dataset_path_list[2].id)

\* C2: a file whose expanded window holds none of the requested timestamps
\* is skipped by the loop of extract_dataset_list: the iteration adds
\* nothing to the collected results and raises nothing.
C2_FileWithoutTimestampsSkipped ==
  [][ ( /\ caller = "extract_dataset_list"
        /\ pc = "loop"
        /\ index_dataset < Len(dataset_path_list)
        /\ interpolate
        /\ WellFormedRequest
        /\ VariablesPresent(dataset_path_list[index_dataset + 1], variables)
        /\ \E r \in 1..NumRows(datearray), s \in 1..NumCols(datearray) :
             datearray[r][s] # NaT
        /\ \A r \in 1..NumRows(datearray), s \in 1..NumCols(datearray) :
             ~InExpandedWindow(datearray[r][s],
                               dataset_path_list[index_dataset + 1]) )
      => (var_list' = var_list /\ pc' = "loop" /\ result' = result) ]_vars

\* C3 as stated: extract_dataset with a variable name absent from the file
\* returns the sentinel -1 and no matrix.
C3_MissingVariableMinus1_Orig ==
  ( /\ caller = "extract_dataset"
    /\ pc = "done"
    /\ \E i \in 1..Len(variables) : variables[i] \notin CalledFile.vars )
  => (result.kind = "minus1" /\ result.mats = <<>>)

\* C3 amended: extract_dataset with a request other than the empty list and
\* a variable name absent from the file returns the sentinel -1 and no
\* matrix, also for the variables that are present.
C3_MissingVariableMinus1 ==
  ( /\ caller = "extract_dataset"
    /\ pc = "done"
    /\ datearray # PyEmptyList
    /\ \E i \in 1..Len(variables) : variables[i] \notin CalledFile.vars )
  => (result.kind = "minus1" /\ result.mats = <<>>)

C3_Witness ==
  /\ caller = "extract_dataset"
  /\ pc = "done"
  /\ datearray # PyEmptyList
  /\ \E i \in 1..Len(variables) : variables[i] \in CalledFile.vars
  /\ \E i \in 1..Len(variables) : variables[i] \notin CalledFile.vars
  /\ result.kind = "minus1"

\* some requested timestamp is not on the native time axis of the file
SomeTimestampUnmatched ==
  /\ datearray # PyEmptyList
  /\ \E r \in 1..NumRows(datearray), s \in 1..NumCols(datearray) :
       /\ datearray[r][s] # NaT
       /\ \A k \in 1..Len(CalledFile.time) :
            CalledFile.time[k] # datearray[r][s]

C5_LengthMismatchFailsFast ==
  ( /\ caller = "extract_dataset"
    /\ pc = "done"
    /\ datearray # PyEmptyList
    /\ Len(lats) # Len(lons) )
  => (result.kind \in {"raise", "minus1", "minus2"} /\ opened = <<>>)

NameHas(f, part) == \E k \in 1..Len(f.name) : f.name[k] = part

\* the directory entries classified so far
Classified == SubSeq(datadirlist, 1, index_file)

\* C7 as stated: a name containing "index" is ignored, otherwise a name
\* containing "const_2d_asm" is a static source, and every other file is a
\* time-series dataset handed to the stitcher in listing order.
C7_Classification_Orig ==
  /\ asmlist = SelectSeq(Classified,
                 LAMBDA f : ~NameHas(f, "index") /\ NameHas(f, "const_2d_asm"))
  /\ dirlist = SelectSeq(Classified,
                 LAMBDA f : ~NameHas(f, "index") /\ ~NameHas(f, "const_2d_asm"))
  /\ (caller = "extract_for_MERRA2" /\ pc # "classify"
        => dataset_path_list = [i \in 1..Len(dirlist) |-> dirlist[i].data])

\* C7 amended: a name containing "index" is ignored, otherwise a name
\* containing "const_2d_asm" is a static source, otherwise a name containing
\* "merra2" is a time-series dataset handed to the stitcher in listing
\* order; a name containing none of the three is ignored.
C7_Classification ==
  /\ asmlist = SelectSeq(Classified,
                 LAMBDA f : ~NameHas(f, "index") /\ NameHas(f, "const_2d_asm"))
  /\ dirlist = SelectSeq(Classified,
                 LAMBDA f : /\ ~NameHas(f, "index")
                            /\ ~NameHas(f, "const_2d_asm")
                            /\ NameHas(f, "merra2"))
  /\ (caller = "extract_for_MERRA2" /\ pc # "classify"
        => dataset_path_list = [i \in 1..Len(dirlist) |-> dirlist[i].data])

C7_Witness ==
  /\ caller = "extract_for_MERRA2"
  /\ pc = "loop"
  /\ Len(dirlist) = 1
  /\ \E k \in 1..Len(datadirlist) :
       /\ NameHas(datadirlist[k], "index")
       /\ NameHas(datadirlist[k], "merra2")

\* C8: in interpolation mode extract_dataset returns per variable a matrix
\* of [request rows x stations]; a station without valid timestamp has an
\* all-NaN column, a station with valid timestamps has values only in the
\* rows of its own valid timestamps and NaN in the others.
C8_InterpolationRowAlignment ==
  ( /\ caller = "extract_dataset"
    /\ pc = "done"
    /\ interpolate
    /\ WellFormedRequest
    /\ Len(CalledFile.time) > 1
    /\ \A i \in 1..Len(variables) : variables[i] \in CalledFile.vars )
  => /\ result.kind = "ok"
     /\ Len(result.mats) = Len(variables)
     /\ \A i \in 1..Len(result.mats) :
          /\ Len(result.mats[i]) = NumRows(datearray)
          /\ \A r \in 1..NumRows(datearray) :
               /\ Len(result.mats[i][r]) = Len(lons)
               /\ \A s \in 1..Len(lons) :
                    LET cell == result.mats[i][r][s]
                    IN  IF datearray[r][s] = NaT
                        THEN cell = NaN
                        ELSE \/ cell = NaN
                             \/ /\ cell[1] = "val"
                                /\ cell[6] = datearray[r][s]

\* C9: in non-interpolating mode on a single-time-step file extract_dataset
\* returns, for every station set, one matrix per variable with one static
\* value per station: each station's row exists and holds the value of the
\* station's nearest grid cell.
C9_StaticValuePerStation ==
  ( /\ caller = "extract_dataset"
    /\ pc = "done"
    /\ ~interpolate
    /\ WellFormedRequest
    /\ Len(CalledFile.time) = 1
    /\ \A i \in 1..Len(variables) : variables[i] \in CalledFile.vars )
  => /\ result.kind = "ok"
     /\ Len(result.mats) = Len(variables)
     /\ \A i \in 1..Len(result.mats) :
          \A s \in 1..Len(lons) :
             /\ s <= Len(result.mats[i])
             /\ result.mats[i][s] =
                  << <<"val", CalledFile.id, variables[i],
                       Nearest(Grid, lats[s]), Nearest(Grid, lons[s]),
                       CalledFile.time[1]>> >>

\* C10: for a file list with pairwise disjoint native windows ordered by
\* time, every requested timestamp of every station is retained in the
\* restricted request of at most one file.
C10_TimestampRetainedOnce ==
  ( /\ caller = "extract_dataset_list"
    /\ datearray # PyEmptyList
    /\ \A i, j \in 1..Len(dataset_path_list) :
         i < j => Last(dataset_path_list[i].time) < dataset_path_list[j].time[1] )
  => \A r \in 1..NumRows(datearray), s \in 1..NumCols(datearray) :
        Cardinality({i \in 1..Len(datevecs) : datevecs[i][r][s] # NaT}) <= 1

====
